---- MODULE Spec2Model ----
(***************************************************************************)
(* Model of qa-kit's partial JSON matcher (tests/utils/test_helpers.py,    *)
(* emitted verbatim by TestGenerator._ensure_helpers).                     *)
(*                                                                         *)
(* Python strings are sequences of one-character strings, so that path     *)
(* construction, prefix tests and glob matching are computed character by  *)
(* character.  JSON values are records [kind, v]:                          *)
(*   kind "dict"  : v is the sequence of <<key, value>> items, in the      *)
(*                  dict's iteration order, keys unique;                   *)
(*   kind "list"  : v is the sequence of elements;                         *)
(*   kind "int", "float" : v is the (integer-valued) number;               *)
(*   kind "bool"  : v is TRUE or FALSE;                                    *)
(*   kind "str"   : v is the character sequence;                           *)
(*   kind "none"  : v is 0.                                                *)
(***************************************************************************)
EXTENDS Integers, Sequences, FiniteSets, TLC

VARIABLES
    expected,       \* _assert_partial: the expected value
    actual,         \* _assert_partial: the actual value
    ignore_keys,    \* the exclusion patterns (ignore_keys / patterns)
    use_wildcard,   \* the wildcard flag
    path,           \* _path_matches_any: the path argument
    outcome,        \* how the call of _assert_partial ended
    matched,        \* what the call of _path_matches_any returned
    pc,             \* "ready" before the call, "done" after it
    now,            \* OAuth2Client: time.time()
    token_info,     \* OAuth2Client.token_info
    token_cache,    \* the content of the file TOKEN_CACHE
    last_call,      \* the last call of OAuth2Client.get_token and how it ended
    test_case,      \* generated test: expected status, ignore_assert, whether the JSON matches
    test_pc,        \* generated test: where its body stands
    attempt,        \* generated test: the loop variable of "for attempt in range(3)"
    resp,           \* generated test: the variable resp
    history,        \* generated test: what happened so far, in order
    spec_dir,       \* generate command: the spec files under the spec path, in sorted order
    disk,           \* the generated test files on disk: path -> content
    cache_file,     \* the content of the file CACHE_FILE: test id -> entry
    cmd,            \* generate command: its options, its progress and its exit code
    gen_ret         \* the last call of TestGenerator.generate and what it returned

matcherVars == <<expected, actual, ignore_keys, use_wildcard, path, outcome, matched, pc>>
oauthVars == <<now, token_info, token_cache, last_call>>
retryVars == <<test_case, test_pc, attempt, resp, history>>
genVars == <<spec_dir, disk, cache_file, cmd, gen_ret>>

vars == <<matcherVars, oauthVars, retryVars, genVars>>

\* the parts of the program a run does not exercise stay as they are
OAuthIdle == now = 0 /\ token_info = <<>> /\ token_cache = <<>> /\ last_call = <<>>
RetryIdle ==
    test_case = <<>> /\ test_pc = "idle" /\ attempt = 0 /\ resp = <<>> /\ history = <<>>
GenIdle ==
    spec_dir = <<>> /\ disk = <<>> /\ cache_file = <<>> /\ cmd = <<>> /\ gen_ret = <<>>

(***************************************************************************)
(* Bounds of the model.                                                    *)
(***************************************************************************)
MaxPathLen == 3     \* longest generated path of the path-matching runs
MaxPatLen == 3      \* longest generated pattern of the path-matching runs
MaxLen == 2         \* longest generated list

(***************************************************************************)
(* Strings.                                                                *)
(***************************************************************************)
StartsWith(s, prefix) ==
    /\ Len(prefix) <= Len(s)
    /\ SubSeq(s, 1, Len(prefix)) = prefix

DigitChar == <<"0", "1", "2", "3", "4", "5", "6", "7", "8", "9">>

\* str(i) for a list index i >= 0, as the f-string formats it
RECURSIVE IntToStr(_)
IntToStr(i) ==
    IF i < 10 THEN <<DigitChar[i + 1]>>
    ELSE IntToStr(i \div 10) \o <<DigitChar[(i % 10) + 1]>>

\* all sequences over S of length at most n
SeqsUpTo(S, n) == UNION {[1..k -> S] : k \in 0..n}

(***************************************************************************)
(* fnmatch.fnmatch(name, pat) on a POSIX host (os.path.normcase is the     *)
(* identity): the whole name must match; "*" matches any run of            *)
(* characters, "?" any one character, "[seq]" one character of seq,        *)
(* "[!seq]" one character not in seq; a "]" right after "[" or "[!"        *)
(* belongs to seq; a "[" with no closing "]" is a literal "[".  The        *)
(* modelled alphabets hold no "-", so seq never contains a range.          *)
(***************************************************************************)

\* index of the "]" closing the class that opens at pat[1] = "[", 0 if none
RECURSIVE ScanClose(_, _)
ScanClose(pat, j) ==
    IF j > Len(pat) THEN 0
    ELSE IF pat[j] = "]" THEN j
    ELSE ScanClose(pat, j + 1)

ClassEnd(pat) ==
    LET j1 == IF Len(pat) >= 2 /\ pat[2] = "!" THEN 3 ELSE 2
        j2 == IF j1 <= Len(pat) /\ pat[j1] = "]" THEN j1 + 1 ELSE j1
    IN  ScanClose(pat, j2)

\* does character c belong to the class whose text (between the brackets) is stuff
InClass(c, stuff) ==
    IF stuff[1] = "!"
    THEN \A i \in 2..Len(stuff) : stuff[i] # c
    ELSE \E i \in 1..Len(stuff) : stuff[i] = c

RECURSIVE Fnmatch(_, _)
Fnmatch(name, pat) ==
    IF pat = <<>> THEN name = <<>>
    ELSE IF Head(pat) = "*"
         THEN \E k \in 0..Len(name) :
                  Fnmatch(SubSeq(name, k + 1, Len(name)), Tail(pat))
    ELSE IF Head(pat) = "?"
         THEN name # <<>> /\ Fnmatch(Tail(name), Tail(pat))
    ELSE IF Head(pat) = "[" /\ ClassEnd(pat) # 0
         THEN /\ name # <<>>
              /\ InClass(Head(name), SubSeq(pat, 2, ClassEnd(pat) - 1))
              /\ Fnmatch(Tail(name), SubSeq(pat, ClassEnd(pat) + 1, Len(pat)))
    ELSE name # <<>> /\ Head(name) = Head(pat) /\ Fnmatch(Tail(name), Tail(pat))

(***************************************************************************)
(* _path_matches_any                                                       *)
(***************************************************************************)

\* variants of the elif branch: without the exact match; without the "."
LiteralMatchPrefixOnly(p, pat) == StartsWith(p, pat \o <<".">>)
LiteralMatchNoDot(p, pat) == p = pat \/ StartsWith(p, pat)

\* the elif branch: path == pat or path.startswith(pat + ".")
LiteralMatch(p, pat) == p = pat \/ StartsWith(p, pat \o <<".">>)

\* variant of the loop body: the wildcard flag selects one of the two rules
PatternMatchesOneRule(p, pat, wc) ==
    IF wc THEN Fnmatch(p, pat) ELSE p = pat \/ StartsWith(p, pat \o <<".">>)

\* one iteration of the loop: does pattern pat make the function return True
PatternMatches(p, pat, wc) ==
    IF wc /\ Fnmatch(p, pat) THEN TRUE
    ELSE LiteralMatch(p, pat)

PathMatchesAny(p, patterns, wc) ==
    \E i \in 1..Len(patterns) : PatternMatches(p, patterns[i], wc)

(***************************************************************************)
(* JSON values as Python objects.                                          *)
(***************************************************************************)
JInt(n) == [kind |-> "int", v |-> n]
JFloat(n) == [kind |-> "float", v |-> n]      \* the float n.0
JBool(b) == [kind |-> "bool", v |-> b]
JStr(s) == [kind |-> "str", v |-> s]
JNone == [kind |-> "none", v |-> 0]
JDict(items) == [kind |-> "dict", v |-> items]
JList(elems) == [kind |-> "list", v |-> elems]

IsDict(x) == x.kind = "dict"                 \* isinstance(x, dict)
IsList(x) == x.kind = "list"                 \* isinstance(x, list)
IsNumber(x) == x.kind \in {"int", "float", "bool"}

\* the number a Python int, float or bool compares as (bool is a subclass of int)
NumValue(x) == IF x.kind = "bool" THEN (IF x.v THEN 1 ELSE 0) ELSE x.v

\* Python's expected == actual for a scalar expected e and any actual a
PyEq(e, a) ==
    IF IsNumber(e) THEN IsNumber(a) /\ NumValue(e) = NumValue(a)
    ELSE IF e.kind = "str" THEN a.kind = "str" /\ e.v = a.v
    ELSE a.kind = "none"

\* k in actual, actual[k] for a dict
HasKey(d, k) == \E i \in 1..Len(d.v) : d.v[i][1] = k
Get(d, k) == d.v[CHOOSE i \in 1..Len(d.v) : d.v[i][1] = k][2]

(***************************************************************************)
(* _assert_partial.  The result records how the call ended: ok = TRUE when *)
(* it returned, otherwise the kind of the failed assertion and the path    *)
(* its message names; reads lists, in order, every look the call took at   *)
(* actual: <<what, where>> with what one of "type" (an isinstance test),   *)
(* "in" (a key membership test, where = the key's path), "len", "eq".      *)
(***************************************************************************)
Returned(reads) == [ok |-> TRUE, kind |-> "none", at |-> <<>>, reads |-> reads]
Raised(kind, at, reads) == [ok |-> FALSE, kind |-> kind, at |-> at, reads |-> reads]
After(reads, r) == [r EXCEPT !.reads = reads \o @]

\* variant of new_path: the "." is put in at the root too
KeyPathAlwaysDotted(p, k) == p \o <<".">> \o k

\* new_path = f"{path}.{k}" if path else k
KeyPath(p, k) == IF p # <<>> THEN p \o <<".">> \o k ELSE k

\* f"{path}[{i}]", i counted from 0
IndexPath(p, i) == p \o <<"[">> \o IntToStr(i) \o <<"]">>

\* variant of the kind assertions: the sizes must agree as well
KindAndSizeOk(e, a) == e.kind = a.kind /\ Len(a.v) = Len(e.v)

\* assert isinstance(actual, dict) under a dict expected,
\* assert isinstance(actual, list) under a list expected
KindOk(e, a) == IF IsDict(e) THEN IsDict(a) ELSE IsList(a)

\* variant of the length assertion: == instead of >=
SameLength(a, e) == Len(a.v) = Len(e.v)

\* assert len(actual) >= len(expected)
LongEnough(a, e) == Len(a.v) >= Len(e.v)

RECURSIVE AssertPartial(_, _, _, _, _)
RECURSIVE DictLoop(_, _, _, _, _, _)
RECURSIVE ListLoop(_, _, _, _, _, _)

\* the for loop over expected.items(), from its n-th item on
DictLoop(e, a, p, ign, wc, n) ==
    IF n > Len(e.v) THEN Returned(<<>>)
    ELSE LET k == e.v[n][1]
             v == e.v[n][2]
             new_path == KeyPath(p, k)
         IN  IF PathMatchesAny(new_path, ign, wc)
             THEN DictLoop(e, a, p, ign, wc, n + 1)
             ELSE IF ~HasKey(a, k)
             THEN Raised("MissingKey", new_path, <<<<"in", new_path>>>>)
             ELSE LET r == After(<<<<"in", new_path>>>>,
                                 AssertPartial(v, Get(a, k), new_path, ign, wc))
                  IN  IF r.ok THEN After(r.reads, DictLoop(e, a, p, ign, wc, n + 1))
                      ELSE r

\* variant of the loop over enumerate(expected): every element is compared and
\* the last failure is the one reported
ListLoopKeepsGoing(e, a, p, ign, wc, n) ==
    IF n > Len(e.v) THEN Returned(<<>>)
    ELSE LET r == AssertPartial(e.v[n], a.v[n], IndexPath(p, n - 1), ign, wc)
             rest == ListLoop(e, a, p, ign, wc, n + 1)
         IN  IF rest.ok /\ ~r.ok THEN r ELSE After(r.reads, rest)

\* the for loop over enumerate(expected), from index n - 1 on
ListLoop(e, a, p, ign, wc, n) ==
    IF n > Len(e.v) THEN Returned(<<>>)
    ELSE LET r == AssertPartial(e.v[n], a.v[n], IndexPath(p, n - 1), ign, wc)
         IN  IF r.ok THEN After(r.reads, ListLoop(e, a, p, ign, wc, n + 1))
             ELSE r

AssertPartial(e, a, p, ign, wc) ==
    IF IsDict(e)
    THEN IF ~KindOk(e, a) THEN Raised("TypeMismatch", p, <<<<"type", p>>>>)
         ELSE After(<<<<"type", p>>>>, DictLoop(e, a, p, ign, wc, 1))
    ELSE IF IsList(e)
    THEN IF ~KindOk(e, a) THEN Raised("TypeMismatch", p, <<<<"type", p>>>>)
         ELSE IF ~LongEnough(a, e)
         THEN Raised("ListTooShort", p, <<<<"type", p>>, <<"len", p>>>>)
         ELSE After(<<<<"type", p>>, <<"len", p>>>>, ListLoop(e, a, p, ign, wc, 1))
    ELSE IF PathMatchesAny(p, ign, wc) THEN Returned(<<>>)
         ELSE IF PyEq(e, a) THEN Returned(<<<<"eq", p>>>>)
         ELSE Raised("ValueMismatch", p, <<<<"eq", p>>>>)

(***************************************************************************)
(* Inputs of the runs.  Keys, patterns and values are those of the         *)
(* generated tests and of the documented examples, plus generic families   *)
(* over the keys "a" and "b".                                              *)
(***************************************************************************)
Ka == <<"a">>
Kb == <<"b">>
Kx == <<"x">>
Ky == <<"y">>
Kz == <<"z">>
Kid == <<"i", "d">>
Kitems == <<"i", "t", "e", "m", "s">>
Kdata == <<"d", "a", "t", "a">>
Kemail == <<"e", "m", "a", "i", "l">>
Kdatabase == <<"d", "a", "t", "a", "b", "a", "s", "e">>

P_a_b == <<"a", ".", "b">>
P_a_0 == <<"a", "[", "0", "]">>
P_0 == <<"[", "0", "]">>
P_a_star == <<"a", "*">>
P_a_any == <<"a", "[", "*", "]">>
P_items_0 == <<"i", "t", "e", "m", "s", "[", "0", "]">>
P_items_any_id == <<"i", "t", "e", "m", "s", "[", "*", "]", ".", "i", "d">>
P_items_0_id == <<"i", "t", "e", "m", "s", "[", "0", "]", ".", "i", "d">>
P_data_email == <<"d", "a", "t", "a", ".", "e", "m", "a", "i", "l">>

\* scalars an expected value is built from
Leaves == {JInt(1), JNone}
ExpectedScalars == {JInt(1), JStr(<<"1">>), JNone}

\* the orders in which a dict may hold a subset of the keys "a", "b"
KeySeqs == {<<>>, <<Ka>>, <<Kb>>, <<Ka, Kb>>, <<Kb, Ka>>}

DictsOver(V) ==
    UNION {{JDict([i \in 1..Len(ks) |-> <<ks[i], f[i]>>]) : f \in [1..Len(ks) -> V]}
           : ks \in KeySeqs}

ListsOver(V) == {JList(s) : s \in SeqsUpTo(V, MaxLen)}

Flat == DictsOver(Leaves) \cup ListsOver(Leaves)

Nested == {JDict(<<<<Ka, c>>>>) : c \in Flat} \cup {JList(<<c>>) : c \in Flat}

\* expected values of the documented examples
E_items_id == JDict(<<<<Kitems, JList(<<JDict(<<<<Kid, JInt(1)>>>>)>>)>>>>)
E_items == JDict(<<<<Kitems, JList(<<JInt(1)>>)>>>>)
E_database == JDict(<<<<Kdatabase, JInt(1)>>>>)
E_data_email == JDict(<<<<Kdata, JDict(<<<<Kemail, JInt(1)>>>>)>>>>)
E_x_y == JDict(<<<<Kx, JInt(1)>>, <<Ky, JInt(2)>>>>)
E_a_b == JDict(<<<<Ka, JDict(<<<<Kb, JInt(1)>>>>)>>>>)

ExampleExpected == {E_items_id, E_items, E_database, E_data_email, E_x_y, E_a_b}

ExpectedValues == ExpectedScalars \cup Flat \cup Nested \cup ExampleExpected

\* what an edit may put in the place of a value, and what it may add
Replacements ==
    {JInt(1), JInt(2), JFloat(1), JBool(TRUE), JStr(<<"1">>), JNone,
     JDict(<<>>), JList(<<>>)}
ExtraValues == {JInt(1), JList(<<>>)}

\* the values one edit away from v: a value replaced, a key removed or added,
\* a list shortened or lengthened, at any depth
RECURSIVE Edits(_)
Edits(v) ==
    (Replacements \ {v})
    \cup
    (IF IsDict(v)
     THEN {JDict(SubSeq(v.v, 1, i - 1) \o SubSeq(v.v, i + 1, Len(v.v))) : i \in 1..Len(v.v)}
          \cup (IF HasKey(v, Kz) THEN {}
                ELSE {JDict(Append(v.v, <<Kz, x>>)) : x \in ExtraValues}
                     \cup {JDict(<<<<Kz, x>>>> \o v.v) : x \in ExtraValues})
          \cup UNION {{JDict([v.v EXCEPT ![i] = <<v.v[i][1], c>>]) : c \in Edits(v.v[i][2])}
                      : i \in 1..Len(v.v)}
     ELSE IF IsList(v)
     THEN (IF v.v = <<>> THEN {} ELSE {JList(SubSeq(v.v, 1, Len(v.v) - 1))})
          \cup {JList(Append(v.v, x)) : x \in ExtraValues}
          \cup UNION {{JList([v.v EXCEPT ![i] = c]) : c \in Edits(v.v[i])}
                      : i \in 1..Len(v.v)}
     ELSE {})

\* actual values of the documented examples that are no single edit of expected
A_a_str == JDict(<<<<Ka, JStr(<<"n", "o">>)>>>>)
A_items_5 == JDict(<<<<Kitems, JList(<<JInt(5)>>)>>>>)
A_a_empty == JDict(<<<<Ka, JDict(<<>>)>>>>)

ExampleActuals == {A_a_str, A_items_5, A_a_empty}

ActualsFor(e) == {e} \cup Edits(e) \cup ExampleActuals

Patterns ==
    {Ka, Kb, Kz, P_a_b, P_a_0, P_0, P_a_star, P_a_any,
     Kitems, P_items_0, P_items_any_id, Kdata}
CorePatterns == {Kb, P_a_b}

IgnoreLists ==
    {<<>>} \cup {<<pat>> : pat \in Patterns}
    \cup {<<p1, p2>> : p1 \in CorePatterns, p2 \in CorePatterns}

NoOutcome == [ok |-> FALSE, kind |-> "pending", at |-> <<>>, reads |-> <<>>]

(***************************************************************************)
(* Calls of _assert_partial(expected, actual, ignore_keys=..., use_wildcard*)
(* =...), path defaulted to "", as every generated test makes them.        *)
(***************************************************************************)
Init ==
    /\ expected \in ExpectedValues
    /\ actual \in ActualsFor(expected)
    /\ ignore_keys \in IgnoreLists
    /\ use_wildcard \in BOOLEAN
    /\ path = <<>>
    /\ outcome = NoOutcome
    /\ matched = FALSE
    /\ pc = "ready"
    /\ OAuthIdle /\ RetryIdle /\ GenIdle

Call ==
    /\ pc = "ready"
    /\ outcome' = AssertPartial(expected, actual, path, ignore_keys, use_wildcard)
    /\ pc' = "done"
    /\ UNCHANGED <<expected, actual, ignore_keys, use_wildcard, path, matched>>
    /\ UNCHANGED <<oauthVars, retryVars, genVars>>

Next == Call

Spec == Init /\ [][Next]_vars

(***************************************************************************)
(* Calls of _path_matches_any(path, patterns, use_wildcard) on generated   *)
(* paths and patterns.                                                     *)
(***************************************************************************)
PathChars == {"a", ".", "[", "0"}
PatChars == {"a", ".", "*", "?", "[", "]"}

ExamplePaths ==
    {Kdata, Kdatabase, P_data_email, Kitems, P_items_0, P_items_0_id, P_0, P_a_0}
ExamplePatterns ==
    {Kdata, Kdatabase, P_data_email, Kitems, P_items_0, P_items_any_id, P_items_0_id}

Paths == SeqsUpTo(PathChars, MaxPathLen) \cup ExamplePaths
PathPatterns == SeqsUpTo(PatChars, MaxPatLen) \cup ExamplePatterns

PatternLists ==
    {<<>>} \cup {<<pat>> : pat \in PathPatterns}
    \cup {<<p1, p2>> : p1 \in {Ka, P_a_star}, p2 \in {Kdata, P_items_any_id}}

InitPath ==
    /\ path \in Paths
    /\ ignore_keys \in PatternLists
    /\ use_wildcard \in BOOLEAN
    /\ expected = JNone
    /\ actual = JNone
    /\ outcome = NoOutcome
    /\ matched = FALSE
    /\ pc = "ready"
    /\ OAuthIdle /\ RetryIdle /\ GenIdle

MatchCall ==
    /\ pc = "ready"
    /\ matched' = PathMatchesAny(path, ignore_keys, use_wildcard)
    /\ pc' = "done"
    /\ UNCHANGED <<expected, actual, ignore_keys, use_wildcard, path, outcome>>
    /\ UNCHANGED <<oauthVars, retryVars, genVars>>

NextPath == MatchCall

SpecPath == InitPath /\ [][NextPath]_vars

(***************************************************************************)
(* Properties.                                                             *)
(***************************************************************************)
Done == pc = "done"

\* how the call ended, without the reads
Verdict(r) == [ok |-> r.ok, kind |-> r.kind, at |-> r.at]
Passes == Verdict(Returned(<<>>))
Fails(kind, at) == Verdict(Raised(kind, at, <<>>))

A_items_id_2 == JDict(<<<<Kitems, JList(<<JDict(<<<<Kid, JInt(2)>>>>)>>)>>>>)
A_items_2 == JDict(<<<<Kitems, JList(<<JInt(2)>>)>>>>)
A_database_2 == JDict(<<<<Kdatabase, JInt(2)>>>>)
A_a_b_2 == JDict(<<<<Ka, JDict(<<<<Kb, JInt(2)>>>>)>>>>)

\* C1, as stated: with wildcard off and exclusions ["a.b"], expected
\* {"a": {"b": 1}} against actual {"a": "no"} (a string at a) succeeds.
C1_ExcludedChildHidesParentKind ==
    (Done /\ ~use_wildcard /\ ignore_keys = <<P_a_b>>
          /\ expected = E_a_b /\ actual = A_a_str)
        => outcome.ok

\* C1, amended: an exclusion below a key does not reach the kind check at the
\* key.  When the first key k of an expected object holds a container, k is in
\* actual and not excluded itself, and actual[k] is not a container of that
\* kind, the call fails with a type mismatch at path k, whatever is excluded.
C1_KindCheckedBeforeChildExclusion ==
    (Done /\ IsDict(expected) /\ IsDict(actual) /\ expected.v # <<>>) =>
        LET k == expected.v[1][1]
            v == expected.v[1][2]
        IN  (/\ v.kind \in {"dict", "list"}
             /\ ~PathMatchesAny(k, ignore_keys, use_wildcard)
             /\ HasKey(actual, k)
             /\ Get(actual, k).kind # v.kind)
                => Verdict(outcome) = Fails("TypeMismatch", k)

C1_Witness ==
    /\ Done /\ ~use_wildcard /\ ignore_keys = <<P_a_b>>
    /\ expected = E_a_b /\ actual = A_a_str
    /\ Verdict(outcome) = Fails("TypeMismatch", Ka)

\* C2: with exclusions ["items[*].id"], expected {"items":[{"id":1}]} against
\* actual {"items":[{"id":2}]} succeeds in wildcard mode, and fails with a value
\* mismatch at items[0].id with wildcard mode off.
C2_IndexWildcardExcludes ==
    (Done /\ ignore_keys = <<P_items_any_id>>
          /\ expected = E_items_id /\ actual = A_items_id_2)
        => IF use_wildcard THEN outcome.ok
           ELSE Verdict(outcome) = Fails("ValueMismatch", P_items_0_id)

\* C3: a step whose path is excluded succeeds without a look at actual, whatever
\* expected is there: no read of the call is at an excluded path, and with
\* wildcard off and exclusions ["items[0]"], expected {"items":[{"id":1}]}
\* matches actual {"items":[5]}.
C3_ExcludedStepReadsNothing ==
    Done =>
        /\ \A i \in 1..Len(outcome.reads) :
               ~PathMatchesAny(outcome.reads[i][2], ignore_keys, use_wildcard)
        /\ (~use_wildcard /\ ignore_keys = <<P_items_0>>
              /\ expected = E_items_id /\ actual = A_items_5) => outcome.ok

\* C4, as stated: with wildcard off and exclusions ["items"], expected
\* {"items":[1]} against actual {"items":[2]} fails with a value mismatch at
\* items[0].
C4_LiteralKeepsIndexMismatch ==
    (Done /\ ~use_wildcard /\ ignore_keys = <<Kitems>>
          /\ expected = E_items /\ actual = A_items_2)
        => Verdict(outcome) = Fails("ValueMismatch", P_items_0)

\* C4, amended: the literal pattern "items" does not match the path "items[0]",
\* but it matches the key path "items", so the key is skipped and its list is
\* never entered.  With wildcard off, when the only exclusion is the only key
\* of an expected object, every actual object passes, and the one read is the
\* kind check at the root.
C4_ExcludedKeySkipsItsList ==
    /\ ~PathMatchesAny(P_items_0, <<Kitems>>, FALSE)
    /\ (Done /\ ~use_wildcard /\ IsDict(expected) /\ Len(expected.v) = 1
             /\ ignore_keys = <<expected.v[1][1]>> /\ IsDict(actual))
           => /\ outcome.ok
              /\ outcome.reads = <<<<"type", <<>>>>>>

C4_Witness ==
    /\ Done /\ ~use_wildcard /\ ignore_keys = <<Kitems>>
    /\ expected = E_items /\ actual = A_items_2
    /\ outcome.ok

\* the path rules as the documentation words them
IsOrIsUnder(p, pat) ==
    \/ p = pat
    \/ /\ Len(p) > Len(pat)
       /\ SubSeq(p, 1, Len(pat)) = pat
       /\ p[Len(pat) + 1] = "."
DottedPath(p, k) == IF p = <<>> THEN k ELSE p \o <<".">> \o k
BracketPath(p, i) == p \o <<"[">> \o IntToStr(i) \o <<"]">>

\* C5, as stated: in wildcard mode the result is true iff some pattern
\* glob-matches the whole path.
C5_WildcardIsGlobOnly ==
    (Done /\ use_wildcard)
        => (matched <=> \E i \in 1..Len(ignore_keys) : Fnmatch(path, ignore_keys[i]))

\* C5, amended: in wildcard mode a pattern that does not glob-match the path
\* is still tried by the literal rule; the result is true iff some pattern
\* glob-matches the whole path (wildcard mode only), or equals the path, or is
\* followed by "." in it (both modes).
C5_WildcardIsGlobOrLiteral ==
    Done =>
        (matched <=>
            \E i \in 1..Len(ignore_keys) :
                \/ use_wildcard /\ Fnmatch(path, ignore_keys[i])
                \/ IsOrIsUnder(path, ignore_keys[i]))

C5_Witness ==
    /\ Done /\ use_wildcard
    /\ path = <<"a", ".", "a">> /\ ignore_keys = <<Ka>>
    /\ ~Fnmatch(path, Ka)
    /\ matched

\* C6: a scalar expected at a non-excluded path passes only against an actual of
\* the same type and value: 1 against "1", true or 1.0 fails.
C6_ScalarSameTypeAndValue ==
    (Done /\ ignore_keys = <<>> /\ expected.kind \notin {"dict", "list"})
        => (outcome.ok <=> (actual.kind = expected.kind /\ actual.v = expected.v))

\* d with key k bound to x (added at the end when absent), d without k
WithKey(d, k, x) ==
    IF HasKey(d, k)
    THEN JDict([i \in 1..Len(d.v) |-> IF d.v[i][1] = k THEN <<k, x>> ELSE d.v[i]])
    ELSE JDict(Append(d.v, <<k, x>>))
WithoutKey(d, k) == JDict(SelectSeq(d.v, LAMBDA item : item[1] # k))

\* the values that differ from a in the presence, type or value of one key of
\* expected, at any depth, whose child path is excluded
RECURSIVE ExcludedKeyVariants(_, _, _, _, _)
ExcludedKeyVariants(e, a, p, ign, wc) ==
    IF IsDict(e) /\ IsDict(a)
    THEN UNION {
            LET k == e.v[i][1]
                cp == DottedPath(p, k)
            IN  IF PathMatchesAny(cp, ign, wc)
                THEN {WithoutKey(a, k)} \cup {WithKey(a, k, x) : x \in Replacements}
                ELSE IF HasKey(a, k)
                THEN {WithKey(a, k, c) :
                        c \in ExcludedKeyVariants(e.v[i][2], Get(a, k), cp, ign, wc)}
                ELSE {}
            : i \in 1..Len(e.v)}
    ELSE IF IsList(e) /\ IsList(a)
    THEN UNION {
            {JList([a.v EXCEPT ![i] = c]) :
                c \in ExcludedKeyVariants(e.v[i], a.v[i], BracketPath(p, i - 1), ign, wc)}
            : i \in 1..(IF Len(e.v) < Len(a.v) THEN Len(e.v) ELSE Len(a.v))}
    ELSE {}

\* C7: the call does not depend on actual at an expected key whose child path is
\* excluded: every actual that differs only there ends the same way, after the
\* same reads, and a missing-key failure is never at an excluded path.
C7_ExcludedKeyIsNotRead ==
    Done =>
        /\ \A a2 \in ExcludedKeyVariants(expected, actual, <<>>, ignore_keys, use_wildcard) :
               AssertPartial(expected, a2, <<>>, ignore_keys, use_wildcard) = outcome
        /\ outcome.kind = "MissingKey"
               => ~PathMatchesAny(outcome.at, ignore_keys, use_wildcard)

C7_Witness ==
    /\ Done /\ ~use_wildcard /\ ignore_keys = <<P_a_b>>
    /\ expected = E_a_b /\ actual = A_a_b_2
    /\ A_a_empty \in ExcludedKeyVariants(expected, actual, <<>>, ignore_keys, use_wildcard)
    /\ outcome.ok

\* a is e with keys added to its objects, at any depth
RECURSIVE ExtendsByKeys(_, _)
ExtendsByKeys(e, a) ==
    IF IsDict(e)
    THEN /\ IsDict(a)
         /\ \A i \in 1..Len(e.v) :
                /\ HasKey(a, e.v[i][1])
                /\ ExtendsByKeys(e.v[i][2], Get(a, e.v[i][1]))
    ELSE IF IsList(e)
    THEN /\ IsList(a)
         /\ Len(a.v) = Len(e.v)
         /\ \A i \in 1..Len(e.v) : ExtendsByKeys(e.v[i], a.v[i])
    ELSE a.kind = e.kind /\ a.v = e.v

\* the paths of the values in e
RECURSIVE PathsOf(_, _)
PathsOf(e, p) ==
    {p} \cup
    (IF IsDict(e)
     THEN UNION {PathsOf(e.v[i][2], DottedPath(p, e.v[i][1])) : i \in 1..Len(e.v)}
     ELSE IF IsList(e)
     THEN UNION {PathsOf(e.v[i], BracketPath(p, i - 1)) : i \in 1..Len(e.v)}
     ELSE {})

\* C8: with no exclusions, an actual that is expected plus extra keys (at any
\* depth) passes, and every read is at a path of expected.
C8_ExtraKeysTolerated ==
    (Done /\ ignore_keys = <<>> /\ ExtendsByKeys(expected, actual))
        => /\ outcome.ok
           /\ \A i \in 1..Len(outcome.reads) :
                  outcome.reads[i][2] \in PathsOf(expected, <<>>)

C8_Witness ==
    /\ Done /\ ignore_keys = <<>> /\ expected = E_a_b
    /\ ExtendsByKeys(expected, actual)
    /\ HasKey(Get(actual, Ka), Kz)
    /\ outcome.ok

IsPrefixOf(e, a) == Len(e.v) <= Len(a.v) /\ SubSeq(a.v, 1, Len(e.v)) = e.v

\* C9: with no exclusions and both values sequences, an actual that is expected
\* followed by more elements passes, and no read is at an index >= len(expected);
\* a shorter actual fails with list-too-short at the sequence's path after the
\* kind and length checks alone (also for a sequence under a key or an index).
C9_PrefixTolerated ==
    (Done /\ ignore_keys = <<>>) =>
        /\ (IsList(expected) /\ IsList(actual) /\ Len(actual.v) < Len(expected.v))
              => /\ Verdict(outcome) = Fails("ListTooShort", <<>>)
                 /\ outcome.reads = <<<<"type", <<>>>>, <<"len", <<>>>>>>
        /\ (IsList(expected) /\ IsList(actual) /\ IsPrefixOf(expected, actual))
              => /\ outcome.ok
                 /\ \A i \in 1..Len(outcome.reads) :
                        \/ outcome.reads[i][2] = <<>>
                        \/ \E n \in 0..(Len(expected.v) - 1) :
                               StartsWith(outcome.reads[i][2], BracketPath(<<>>, n))
        /\ (/\ IsDict(expected) /\ Len(expected.v) = 1 /\ IsList(expected.v[1][2])
            /\ IsDict(actual) /\ HasKey(actual, expected.v[1][1])
            /\ IsList(Get(actual, expected.v[1][1]))
            /\ Len(Get(actual, expected.v[1][1]).v) < Len(expected.v[1][2].v))
              => Verdict(outcome) = Fails("ListTooShort", expected.v[1][1])
        /\ (/\ IsList(expected) /\ Len(expected.v) = 1 /\ IsList(expected.v[1])
            /\ IsList(actual) /\ Len(actual.v) >= 1 /\ IsList(actual.v[1])
            /\ Len(actual.v[1].v) < Len(expected.v[1].v))
              => Verdict(outcome) = Fails("ListTooShort", P_0)

C9_Witness ==
    /\ Done /\ ignore_keys = <<>>
    /\ IsList(expected) /\ expected.v # <<>>
    /\ IsList(actual) /\ Len(actual.v) > Len(expected.v)
    /\ IsPrefixOf(expected, actual)
    /\ outcome.ok

\* C10: with wildcard off a pattern excludes a path exactly when the path is the
\* pattern or continues it with "."; "data" excludes "data" and "data.email" but
\* not "database", and expected {"database": 1} against actual {"database": 2}
\* with exclusions ["data"] fails.
C10_LiteralPrefixBoundary ==
    /\ (Done /\ ~use_wildcard /\ Len(ignore_keys) = 1)
           => (matched <=> IsOrIsUnder(path, ignore_keys[1]))
    /\ (Done /\ ~use_wildcard /\ ignore_keys = <<Kdata>>)
           => /\ path \in {Kdata, P_data_email} => matched
              /\ path = Kdatabase => ~matched
    /\ Verdict(AssertPartial(E_database, A_database_2, <<>>, <<Kdata>>, FALSE))
           = Fails("ValueMismatch", Kdatabase)

C10_Witness ==
    /\ Done /\ ~use_wildcard /\ ignore_keys = <<Kdata>>
    /\ path = Kdatabase
    /\ ~matched

(***************************************************************************)
(* Calls of _assert_partial on actual values up to two edits away from     *)
(* expected, so that one call meets several violations.                    *)
(***************************************************************************)
OrderExpected == ExampleExpected \cup Flat
OrderIgnoreLists == {<<>>, <<Ka>>, <<P_0>>, <<P_a_b>>}

InitOrder ==
    /\ expected \in OrderExpected
    /\ actual \in {expected} \cup Edits(expected)
                  \cup UNION {Edits(x) : x \in Edits(expected)}
    /\ ignore_keys \in OrderIgnoreLists
    /\ use_wildcard \in BOOLEAN
    /\ path = <<>>
    /\ outcome = NoOutcome
    /\ matched = FALSE
    /\ pc = "ready"
    /\ OAuthIdle /\ RetryIdle /\ GenIdle

SpecOrder == InitOrder /\ [][Next]_vars

\* the paths of the non-excluded keys of e that a lacks, in depth-first order,
\* for an a that is e with keys removed
RECURSIVE MissingKeys(_, _, _, _, _)
RECURSIVE MissingFrom(_, _, _, _, _, _)
MissingFrom(e, a, p, ign, wc, n) ==
    IF n > Len(e.v) THEN <<>>
    ELSE (IF IsDict(e)
          THEN LET k == e.v[n][1]
                   cp == DottedPath(p, k)
               IN  IF PathMatchesAny(cp, ign, wc) THEN <<>>
                   ELSE IF \A i \in 1..Len(a.v) : a.v[i][1] # k THEN <<cp>>
                   ELSE MissingKeys(e.v[n][2], Get(a, k), cp, ign, wc)
          ELSE MissingKeys(e.v[n], a.v[n], BracketPath(p, n - 1), ign, wc))
         \o MissingFrom(e, a, p, ign, wc, n + 1)
MissingKeys(e, a, p, ign, wc) ==
    IF IsDict(e) \/ IsList(e) THEN MissingFrom(e, a, p, ign, wc, 1) ELSE <<>>

\* C11: when actual is expected with keys removed (no other violation), the call
\* fails with a missing-key failure at the child path of the first non-excluded
\* absent key: k at the root, parent + "." + k below, "[i]" for a sequence step;
\* expected {"x":1,"y":2} against actual {"x":1} fails with missing key at "y".
C11_MissingKeyAtChildPath ==
    (Done /\ ExtendsByKeys(actual, expected)) =>
        LET missing == MissingKeys(expected, actual, <<>>, ignore_keys, use_wildcard)
        IN  IF missing = <<>> THEN outcome.ok
            ELSE Verdict(outcome) = Fails("MissingKey", missing[1])

C11_Witness ==
    /\ Done /\ ignore_keys = <<>>
    /\ expected = E_x_y /\ actual = JDict(<<<<Kx, JInt(1)>>>>)
    /\ Verdict(outcome) = Fails("MissingKey", Ky)

\* every violation between e and a, in depth-first order (object keys in
\* expected's order, sequence indices increasing; at a node the kind check,
\* then the length check, then the children), found without stopping at the
\* first one; each is <<kind, path, the read that finds it>>
RECURSIVE Violations(_, _, _, _, _)
RECURSIVE ViolationsFrom(_, _, _, _, _, _)
ViolationsFrom(e, a, p, ign, wc, n) ==
    IF n > Len(e.v) THEN <<>>
    ELSE (IF IsDict(e)
          THEN LET k == e.v[n][1]
                   cp == DottedPath(p, k)
               IN  IF PathMatchesAny(cp, ign, wc) THEN <<>>
                   ELSE IF \A i \in 1..Len(a.v) : a.v[i][1] # k
                   THEN <<<<"MissingKey", cp, "in">>>>
                   ELSE Violations(e.v[n][2], Get(a, k), cp, ign, wc)
          ELSE Violations(e.v[n], a.v[n], BracketPath(p, n - 1), ign, wc))
         \o ViolationsFrom(e, a, p, ign, wc, n + 1)
Violations(e, a, p, ign, wc) ==
    IF IsDict(e) \/ IsList(e)
    THEN IF a.kind # e.kind THEN <<<<"TypeMismatch", p, "type">>>>
         ELSE IF IsList(e) /\ Len(a.v) < Len(e.v) THEN <<<<"ListTooShort", p, "len">>>>
         ELSE ViolationsFrom(e, a, p, ign, wc, 1)
    ELSE IF PathMatchesAny(p, ign, wc) \/ PyEq(e, a) THEN <<>>
         ELSE <<<<"ValueMismatch", p, "eq">>>>

\* C12: of several violations the call reports exactly the first one in
\* depth-first order, the read that finds it is the last read of the call, and
\* a repeated call on the same inputs ends the same way.
C12_FirstViolationOnly ==
    Done =>
        LET all == Violations(expected, actual, <<>>, ignore_keys, use_wildcard)
        IN  /\ outcome.ok <=> all = <<>>
            /\ all # <<>> =>
                  /\ Verdict(outcome) = Fails(all[1][1], all[1][2])
                  /\ outcome.reads[Len(outcome.reads)] = <<all[1][3], all[1][2]>>
                  /\ \A i \in 1..(Len(outcome.reads) - 1) :
                         outcome.reads[i] # <<all[1][3], all[1][2]>>
            /\ AssertPartial(expected, actual, <<>>, ignore_keys, use_wildcard) = outcome

C12_Witness ==
    /\ Done /\ ~outcome.ok
    /\ LET all == Violations(expected, actual, <<>>, ignore_keys, use_wildcard)
       IN  /\ Len(all) >= 2
           /\ all[1][2] # all[2][2]
           /\ Verdict(outcome) = Fails(all[1][1], all[1][2])

(***************************************************************************)
(* OAuth2Client (client.py): the token cache.  A dict is a record with the *)
(* set of keys it holds; a key it does not hold reads as its default.      *)
(***************************************************************************)
ExpiryBuffer == 30
DefaultExpiresIn == 3600
MaxNow == 3700

NoTokenInfo == [keys |-> {}, access_token |-> "", expires_at |-> 0]
TokenInfo(tok, exp) ==
    [keys |-> {"access_token", "expires_at"}, access_token |-> tok, expires_at |-> exp]
TokenOnly(tok) == [keys |-> {"access_token"}, access_token |-> tok, expires_at |-> 0]

\* token_info.get("expires_at", 0)
GetExpiresAt(info) == IF "expires_at" \in info.keys THEN info.expires_at ELSE 0

IsTokenValidNoBuffer(info, t) ==
    IF info.keys = {} THEN FALSE ELSE t < GetExpiresAt(info)

IsTokenValid(info, t) ==
    IF info.keys = {} THEN FALSE ELSE t < GetExpiresAt(info) - ExpiryBuffer

\* what the token endpoint answers: an error status, or a body with an
\* access_token and possibly an expires_in
NoResponse == [ok |-> FALSE, access_token |-> "", has_expires_in |-> FALSE, expires_in |-> 0]
ErrorResponse == [ok |-> FALSE, access_token |-> "", has_expires_in |-> FALSE, expires_in |-> 1]
TokenResponse(tok, has, exp) ==
    [ok |-> TRUE, access_token |-> tok, has_expires_in |-> has, expires_in |-> exp]

\* data.get("expires_in", 3600)
GetExpiresIn(data) == IF data.has_expires_in THEN data.expires_in ELSE DefaultExpiresIn

Tokens == {"tokA", "tokB"}
ExpiresInValues == {30, 60}
ClockSteps == {30, 3540}
FetchDelays == {0, 30}
TokenResponses ==
    {TokenResponse(tok, TRUE, e) : tok \in Tokens, e \in ExpiresInValues}
        \cup {TokenResponse(tok, FALSE, 0) : tok \in Tokens}
InitialTokenCaches ==
    {NoTokenInfo, TokenOnly("tokOld"), TokenInfo("tokOld", 30), TokenInfo("tokOld", 90)}

NoCall == [kind |-> "none", posted |-> FALSE, response |-> NoResponse, returned |-> ""]

InitOAuth ==
    /\ now = 0
    /\ token_cache \in InitialTokenCaches
    /\ token_info = token_cache
    /\ last_call = NoCall
    /\ expected = JNone /\ actual = JNone /\ ignore_keys = <<>> /\ use_wildcard = FALSE
    /\ path = <<>> /\ outcome = NoOutcome /\ matched = FALSE /\ pc = "idle"
    /\ RetryIdle /\ GenIdle

\* the clock moves on between two calls
Advance ==
    \E d \in ClockSteps :
        /\ now + d <= MaxNow
        /\ now' = now + d
        /\ last_call' = NoCall
        /\ UNCHANGED <<token_info, token_cache>>
        /\ UNCHANGED <<matcherVars, retryVars, genVars>>

GetTokenCached ==
    /\ IsTokenValid(token_info, now)
    /\ last_call' = [kind |-> "cached", posted |-> FALSE, response |-> NoResponse,
                     returned |-> token_info.access_token]
    /\ UNCHANGED <<now, token_info, token_cache>>
    /\ UNCHANGED <<matcherVars, retryVars, genVars>>

GetTokenFetched ==
    \E data \in TokenResponses, d \in FetchDelays :
        /\ ~IsTokenValid(token_info, now)
        /\ now + d <= MaxNow
        /\ now' = now + d
        /\ token_info' = TokenInfo(data.access_token, now' + GetExpiresIn(data))
        /\ token_cache' = token_info'
        /\ last_call' = [kind |-> "fetched", posted |-> TRUE, response |-> data,
                         returned |-> data.access_token]
        /\ UNCHANGED <<matcherVars, retryVars, genVars>>

GetTokenRaises ==
    /\ ~IsTokenValid(token_info, now)
    /\ last_call' = [kind |-> "raised", posted |-> TRUE, response |-> ErrorResponse,
                     returned |-> ""]
    /\ UNCHANGED <<now, token_info, token_cache>>
    /\ UNCHANGED <<matcherVars, retryVars, genVars>>

NextOAuth == Advance \/ GetTokenCached \/ GetTokenFetched \/ GetTokenRaises

SpecOAuth == InitOAuth /\ [][NextOAuth]_vars

\* C16: a call of get_token returns the token it holds, without contacting the
\* token endpoint, exactly when it holds one and the time is strictly before
\* that token's expires_at minus 30 seconds; otherwise it contacts the endpoint
\* and, on an answer, records the answer's token with expires_at = the time
\* plus expires_in (3600 when the answer has none), saves the same to the
\* cache file and returns that token; only an error answer makes it raise,
\* and then the token it holds and the cache file stay as they were.
C16_FetchOnlyWhenNeeded ==
    [][(last_call' # last_call /\ last_call'.kind # "none") =>
        LET usable == /\ token_info.keys # {}
                      /\ "expires_at" \in token_info.keys
                      /\ now + 30 < token_info.expires_at
            data == last_call'.response
        IN  /\ (last_call'.kind = "cached") <=> usable
            /\ last_call'.posted <=> ~usable
            /\ last_call'.kind = "cached" =>
                  /\ last_call'.returned = token_info.access_token
                  /\ token_info' = token_info /\ token_cache' = token_cache
            /\ (~usable /\ data.ok) => last_call'.kind = "fetched"
            /\ last_call'.kind = "fetched" =>
                  /\ token_info'.access_token = data.access_token
                  /\ token_info'.expires_at =
                        now' + (IF data.has_expires_in THEN data.expires_in ELSE 3600)
                  /\ token_cache' = token_info'
                  /\ last_call'.returned = data.access_token
            /\ last_call'.kind = "raised" =>
                  /\ ~data.ok
                  /\ token_info' = token_info /\ token_cache' = token_cache
    ]_vars

\* a token fetched at time 0 without expires_in is still returned from the
\* cache at 3540, thirty seconds before its margin
C16_Witness ==
    /\ last_call.kind = "cached"
    /\ now = 3540
    /\ token_info.expires_at = 3600

(***************************************************************************)
(* The body of a generated test (the template of _generate_test_content):  *)
(* the retry loop around client.request, then the two assertions.          *)
(***************************************************************************)
MaxAttempts == 3
LastAttempt == 2
RetrySleep == 2

StatusCodes == {200, 404}
ResponseStatusCodes == {200, 404, 500}
ResponseBodies == {E_x_y, A_a_str}
ExpectedJsons == {JDict(<<>>), E_x_y}

TestCases ==
    [expected_status : StatusCodes, ignore_assert : BOOLEAN, expected_json : ExpectedJsons,
     ignore_json : {<<>>, <<Ky>>}, use_wildcard : {FALSE}]

NoResp == [bound |-> FALSE, status_code |-> 0, json |-> JNone, attempt |-> 0]
Response(code, body, k) == [bound |-> TRUE, status_code |-> code, json |-> body, attempt |-> k]

RaisesOnSecondAttempt(k) == k = 1

\* "if attempt == 2: raise"
IsLastAttempt(k) == k = LastAttempt

\* "for attempt in range(3)": whether the loop has a next value after k
HasNextAttempt(k) == k + 1 < MaxAttempts

InitRetry ==
    /\ test_case \in TestCases
    /\ test_pc = "request"
    /\ attempt = 0
    /\ resp = NoResp
    /\ history = <<>>
    /\ expected = JNone /\ actual = JNone /\ ignore_keys = <<>> /\ use_wildcard = FALSE
    /\ path = <<>> /\ outcome = NoOutcome /\ matched = FALSE /\ pc = "idle"
    /\ OAuthIdle /\ GenIdle

\* client.request returns a response: resp is bound and "break" leaves the loop
RequestReturns ==
    \E code \in ResponseStatusCodes, body \in ResponseBodies :
        /\ test_pc = "request"
        /\ resp' = Response(code, body, attempt)
        /\ history' = Append(history, <<"response", attempt>>)
        /\ test_pc' = "assert_status"
        /\ UNCHANGED <<test_case, attempt>>
        /\ UNCHANGED <<matcherVars, oauthVars, genVars>>

\* client.request raises httpx.RequestError
RequestError ==
    /\ test_pc = "request"
    /\ history' = Append(history, <<"RequestError", attempt>>)
    /\ test_pc' = IF IsLastAttempt(attempt) THEN "raised" ELSE "sleep"
    /\ UNCHANGED <<test_case, attempt, resp>>
    /\ UNCHANGED <<matcherVars, oauthVars, genVars>>

\* client.request raises anything else: no except clause catches it
RequestOtherError ==
    /\ test_pc = "request"
    /\ history' = Append(history, <<"error", attempt>>)
    /\ test_pc' = "raised"
    /\ UNCHANGED <<test_case, attempt, resp>>
    /\ UNCHANGED <<matcherVars, oauthVars, genVars>>

\* "await asyncio.sleep(2)", then the loop takes its next value; a loop that
\* ran out of values falls through to the assertions
Sleep ==
    /\ test_pc = "sleep"
    /\ history' = Append(history, <<"sleep", RetrySleep>>)
    /\ IF HasNextAttempt(attempt)
          THEN attempt' = attempt + 1 /\ test_pc' = "request"
          ELSE attempt' = attempt /\ test_pc' = "assert_status"
    /\ UNCHANGED <<test_case, resp>>
    /\ UNCHANGED <<matcherVars, oauthVars, genVars>>

\* "assert resp.status_code == expected_status"; an unbound resp raises
AssertStatus ==
    /\ test_pc = "assert_status"
    /\ history' = Append(history, <<"assert_status", resp.attempt>>)
    /\ test_pc' = IF ~resp.bound THEN "raised"
                  ELSE IF resp.status_code # test_case.expected_status THEN "failed"
                  ELSE IF test_case.ignore_assert THEN "passed"
                  ELSE "assert_json"
    /\ UNCHANGED <<test_case, attempt, resp>>
    /\ UNCHANGED <<matcherVars, oauthVars, genVars>>

\* "_assert_partial(expected_json, resp.json(), ignore_keys=..., use_wildcard=...)"
AssertJson ==
    /\ test_pc = "assert_json"
    /\ history' = Append(history, <<"assert_json", resp.attempt>>)
    /\ test_pc' = IF AssertPartial(test_case.expected_json, resp.json, <<>>,
                                   test_case.ignore_json, test_case.use_wildcard).ok
                     THEN "passed" ELSE "failed"
    /\ UNCHANGED <<test_case, attempt, resp>>
    /\ UNCHANGED <<matcherVars, oauthVars, genVars>>

NextRetry ==
    RequestReturns \/ RequestError \/ RequestOtherError \/ Sleep \/ AssertStatus \/ AssertJson

SpecRetry == InitRetry /\ [][NextRetry]_vars

IsAttempt(e) == e[1] \in {"response", "RequestError", "error"}
IsAssertion(e) == e[1] \in {"assert_status", "assert_json"}
AttemptsIn(h) == {i \in DOMAIN h : IsAttempt(h[i])}

\* C19: in every run of a generated test the request is attempted at most 3
\* times, numbered 0, 1, 2 in order; a RequestError on attempt 0 or 1 is
\* followed by a sleep of 2 seconds and then the next attempt, a RequestError
\* on attempt 2 ends the test with the error raised; nothing is attempted
\* after a response; and an assertion is evaluated only after a response,
\* on the response of the last attempt made.
C19_RetryProtocol ==
    LET h == history
        n == Len(h)
    IN  /\ Cardinality(AttemptsIn(h)) <= 3
        /\ \A i \in AttemptsIn(h) :
              h[i][2] = Cardinality({j \in AttemptsIn(h) : j < i})
        /\ \A i \in DOMAIN h :
              /\ (h[i][1] = "RequestError" /\ h[i][2] \in {0, 1}) =>
                    /\ IF i = n THEN test_pc = "sleep" ELSE h[i + 1] = <<"sleep", 2>>
                    /\ IF i + 1 = n THEN test_pc = "request"
                       ELSE i + 1 < n => h[i + 2][1] \in {"response", "RequestError", "error"}
              /\ (h[i][1] = "RequestError" /\ h[i][2] = 2) =>
                    /\ i = n /\ test_pc = "raised"
                    /\ \A j \in AttemptsIn(h) : h[j][1] = "RequestError"
              /\ h[i][1] = "sleep" =>
                    /\ i > 1 /\ h[i - 1][1] = "RequestError" /\ h[i - 1][2] \in {0, 1}
              /\ h[i][1] = "response" =>
                    /\ \A j \in AttemptsIn(h) : j <= i
                    /\ \A j \in DOMAIN h : j > i => IsAssertion(h[j])
                    /\ resp.bound /\ resp.attempt = h[i][2]
              /\ IsAssertion(h[i]) =>
                    \E j \in AttemptsIn(h) :
                        /\ j < i /\ h[j][1] = "response"
                        /\ \A k \in AttemptsIn(h) : k <= j
                        /\ h[i][2] = h[j][2]
        /\ test_pc \in {"assert_status", "assert_json", "passed", "failed"} =>
              \E j \in AttemptsIn(h) : h[j][1] = "response"

\* two RequestErrors, two sleeps, a response on the third attempt, and the
\* test passed on it after both assertions
C19_Witness ==
    /\ test_pc = "passed"
    /\ Len(history) = 7
    /\ history[1] = <<"RequestError", 0>> /\ history[3] = <<"RequestError", 1>>
    /\ history[5] = <<"response", 2>>
    /\ history[7] = <<"assert_json", 2>>

(***************************************************************************)
(* TestGenerator (generator.py) and the generate command (cli.py).         *)
(* Names, ids and file names are texts (sequences of characters); a test   *)
(* of a spec file holds the keys id, name and expected.status_code.        *)
(***************************************************************************)
MaxTests == 2
MaxFiles == 2
MaxRuns == 2

T1 == <<"t", "1">>
T2 == <<"t", "2">>
NameA == <<"a">>
NameAb == <<"A", "-", "b">>

ATest(id, name, code) == [id |-> id, name |-> name, status_code |-> code]

TestPool ==
    {ATest(T1, NameA, 200), ATest(T1, NameA, 404), ATest(T2, NameA, 200),
     ATest(<<>>, NameAb, 200)}

\* str.lower() and str.replace("-", "_"), character by character
LowerChar(c) == IF c = "A" THEN "a" ELSE IF c = "B" THEN "b" ELSE c
Lower(str) == [i \in DOMAIN str |-> LowerChar(str[i])]
ReplaceDash(str) == [i \in DOMAIN str |-> IF str[i] = "-" THEN "_" ELSE str[i]]

\* test.get("id") or f"{test['name']}_{i}"
TestId(test, i) == IF test.id # <<>> THEN test.id ELSE test.name \o <<"_">> \o IntToStr(i)

SafeName(test) == ReplaceDash(Lower(test.name))

\* out_dir / f"test_{safe_name}_{i}.py"
FilePath(test, i) ==
    <<"t", "e", "s", "t", "_">> \o SafeName(test) \o <<"_">> \o IntToStr(i) \o <<".", "p", "y">>

\* md5 of the test's JSON text with sorted keys: one digest per test content
ComputeHash(test) == <<"md5", test.id, test.name, test.status_code>>

\* the generated source, as far as it depends on the test: the name of the
\* test function and the asserted status code
GenerateTestContent(test, i) ==
    [func |-> <<"t", "e", "s", "t", "_">> \o SafeName(test) \o <<"_">> \o ReplaceDash(test.id),
     status_code |-> test.status_code]

NoFile == [func |-> <<>>, status_code |-> 0]
NoEntry == [hash |-> <<>>, file |-> <<>>]

AllPaths == {FilePath(t, i) : t \in TestPool, i \in 1..MaxTests}
AllIds == {TestId(t, i) : t \in TestPool, i \in 1..MaxTests}

EmptyDisk == [p \in AllPaths |-> NoFile]
EmptyCache == [tid \in AllIds |-> NoEntry]

Exists(d, p) == d[p] # NoFile

\* variant of the cleanup condition: the dry-run flag is not looked at
CleanAlways(clean, dry_run) == clean

\* "if self.clean_removed and not dry_run"
CleanApplies(clean, dry_run) == clean /\ ~dry_run

\* the display text of lines 176-183
ActionText(cached, new_hash, file_exists, same_content) ==
    IF cached # NoEntry /\ cached.hash = new_hash /\ file_exists THEN "skipped (unchanged)"
    ELSE IF file_exists /\ same_content THEN "skipped (no content change)"
    ELSE IF cached # NoEntry THEN "would update"
    ELSE "would create"

\* "for i, test in enumerate(tests, 1)": st holds self.cache, the files on
\* disk and the locals of generate
RECURSIVE GenLoop(_, _, _, _)
GenLoop(tests, i, st, dry_run) ==
    IF i > Len(tests) THEN st
    ELSE
        LET test == tests[i]
            test_id == TestId(test, i)
            file_path == FilePath(test, i)
            new_hash == ComputeHash(test)
            cached == st.cache[test_id]
            new_content == GenerateTestContent(test, i)
            action == ActionText(cached, new_hash, Exists(st.disk, file_path),
                                 st.disk[file_path] = new_content)
            seen == [st EXCEPT !.current_ids = @ \cup {test_id},
                               !.actions = Append(@, action)]
        IN  IF dry_run THEN GenLoop(tests, i + 1, seen, dry_run)
            ELSE GenLoop(tests, i + 1,
                         [seen EXCEPT !.disk[file_path] = new_content,
                                      !.cache[test_id] = [hash |-> new_hash, file |-> file_path],
                                      !.files = Append(@, file_path),
                                      !.changes = @ + 1,
                                      !.written = @ \cup {file_path}],
                         dry_run)

\* lines 204-213: every cached id not seen in this call loses its file and
\* its cache entry
CleanRemoved(st) ==
    LET removed == {tid \in AllIds : st.cache[tid] # NoEntry /\ tid \notin st.current_ids}
        old_paths == {st.cache[tid].file : tid \in removed}
    IN  [st EXCEPT !.disk = [p \in AllPaths |-> IF p \in old_paths THEN NoFile ELSE st.disk[p]],
                   !.deleted = {p \in old_paths : Exists(st.disk, p)},
                   !.cache = [tid \in AllIds |-> IF tid \in removed THEN NoEntry ELSE st.cache[tid]]]

\* TestGenerator.generate(delta, clean_removed, dry_run) on a generator whose
\* cache was loaded as `cache`, with the files `files_on_disk`
Generate(tests, cache, files_on_disk, delta, clean_removed, dry_run) ==
    LET st0 == [delta_mode |-> delta, clean_removed |-> clean_removed,
                cache |-> cache, disk |-> files_on_disk,
                files |-> <<>>, changes |-> 0, current_ids |-> {},
                written |-> {}, deleted |-> {}, actions |-> <<>>, saved |-> FALSE]
    IN  IF tests = <<>> THEN st0
        ELSE
            LET st1 == GenLoop(tests, 1, st0, dry_run)
                st2 == IF CleanApplies(st1.clean_removed, dry_run) THEN CleanRemoved(st1) ELSE st1
            IN  IF ~dry_run THEN [st2 EXCEPT !.saved = TRUE] ELSE st2

(***************************************************************************)
(* The generate command: the spec path, the loop over the spec files, and  *)
(* the exit code.  An exception raised in the body of the "try" is caught  *)
(* by "except Exception" when its class derives from Exception; typer.Exit *)
(* is click's Exit, a RuntimeError.                                        *)
(***************************************************************************)
NoRaise == [type |-> "none", code |-> 0]
Exit(code) == [type |-> "Exit", code |-> code]
LoadError == [type |-> "ValueError", code |-> 0]

IsException(raised) == raised.type \in {"Exit", "ValueError"}

\* lines 125-128: what leaves the command, given what the body raised
CommandExitCode(raised) ==
    IF raised.type = "none" THEN 0
    ELSE IF IsException(raised) THEN 1
    ELSE raised.code

InvalidFile == [valid |-> FALSE, tests |-> <<>>]
SpecFile(tests) == [valid |-> TRUE, tests |-> tests]
SpecFiles == {SpecFile(ts) : ts \in SeqsUpTo(TestPool, MaxTests)} \cup {InvalidFile}

SpecPaths ==
    {[kind |-> "missing", files |-> <<>>], [kind |-> "other", files |-> <<>>]}
        \cup {[kind |-> "json", files |-> <<f>>] : f \in SpecFiles}
        \cup {[kind |-> "dir", files |-> fs] : fs \in SeqsUpTo(SpecFiles, MaxFiles)}

\* one change to a test list: a test replaced, removed or added at the end
TestEdits(ts) ==
    {[ts EXCEPT ![j] = t] : j \in DOMAIN ts, t \in TestPool}
        \cup {SubSeq(ts, 1, j - 1) \o SubSeq(ts, j + 1, Len(ts)) : j \in DOMAIN ts}
        \cup (IF Len(ts) < MaxTests THEN {Append(ts, t) : t \in TestPool} ELSE {})

\* one change to the spec files under the path: a change inside one valid
\* file, a file removed, or a file with one test added
FileEdits(fs, kind) ==
    UNION {{[fs EXCEPT ![k] = SpecFile(ts)] : ts \in TestEdits(fs[k].tests)} :
              k \in {j \in DOMAIN fs : fs[j].valid}}
        \cup (IF kind = "dir"
                 THEN {SubSeq(fs, 1, k - 1) \o SubSeq(fs, k + 1, Len(fs)) : k \in DOMAIN fs}
                          \cup (IF Len(fs) < MaxFiles
                                   THEN {Append(fs, SpecFile(<<t>>)) : t \in TestPool}
                                   ELSE {})
                 ELSE {})

IdleCmd(runs) ==
    [phase |-> "idle", runs |-> runs, delta |-> FALSE, clean |-> FALSE, dry_run |-> FALSE,
     next |-> 0, total_generated |-> 0, raised |-> NoRaise, exit_code |-> -1]

NoGen ==
    [called |-> FALSE, tests |-> <<>>, delta_mode |-> FALSE, clean_removed |-> FALSE,
     dry_run |-> FALSE, cache |-> EmptyCache, files |-> <<>>, changes |-> 0,
     written |-> {}, deleted |-> {}, actions |-> <<>>]

InitGen ==
    /\ spec_dir \in SpecPaths
    /\ disk = EmptyDisk
    /\ cache_file = EmptyCache
    /\ cmd = IdleCmd(0)
    /\ gen_ret = NoGen
    /\ expected = JNone /\ actual = JNone /\ ignore_keys = <<>> /\ use_wildcard = FALSE
    /\ path = <<>> /\ outcome = NoOutcome /\ matched = FALSE /\ pc = "idle"
    /\ OAuthIdle /\ RetryIdle

\* lines 63-84: what the checks of the spec path raise
PathCheck(sp) ==
    IF sp.kind = "missing" THEN Exit(2)
    ELSE IF sp.kind = "dir" /\ sp.files = <<>> THEN Exit(0)
    ELSE IF sp.kind = "other" THEN Exit(0)
    ELSE NoRaise

\* the command is invoked: lines 62-92
Start ==
    \E delta \in BOOLEAN, clean \in BOOLEAN, dry_run \in BOOLEAN :
        /\ cmd.phase \in {"idle", "exited"}
        /\ cmd.runs < MaxRuns
        /\ LET raised == PathCheck(spec_dir)
               begun == [phase |-> "running", runs |-> cmd.runs + 1, delta |-> delta,
                         clean |-> clean, dry_run |-> dry_run, next |-> 1,
                         total_generated |-> 0, raised |-> NoRaise, exit_code |-> -1]
           IN  cmd' = IF raised = NoRaise THEN begun
                      ELSE [begun EXCEPT !.phase = "exited", !.raised = raised,
                                         !.exit_code = CommandExitCode(raised)]
        /\ gen_ret' = NoGen
        /\ UNCHANGED <<spec_dir, disk, cache_file>>
        /\ UNCHANGED <<matcherVars, oauthVars, retryVars>>

\* line 96: load_json raises on the next spec file
LoadFails ==
    /\ cmd.phase = "running"
    /\ cmd.next <= Len(spec_dir.files)
    /\ ~spec_dir.files[cmd.next].valid
    /\ cmd' = [cmd EXCEPT !.phase = "exited", !.raised = LoadError,
                          !.exit_code = CommandExitCode(LoadError)]
    /\ UNCHANGED <<spec_dir, disk, cache_file, gen_ret>>
    /\ UNCHANGED <<matcherVars, oauthVars, retryVars>>

\* lines 96-102: a TestGenerator is built for the next spec file (its cache
\* loaded from the cache file) and generate is called on it
GenerateFile ==
    /\ cmd.phase = "running"
    /\ cmd.next <= Len(spec_dir.files)
    /\ spec_dir.files[cmd.next].valid
    /\ LET tests == spec_dir.files[cmd.next].tests
           r == Generate(tests, cache_file, disk, cmd.delta, cmd.clean, cmd.dry_run)
       IN  /\ disk' = r.disk
           /\ cache_file' = IF r.saved THEN r.cache ELSE cache_file
           /\ gen_ret' = [called |-> TRUE, tests |-> tests, delta_mode |-> r.delta_mode,
                          clean_removed |-> r.clean_removed, dry_run |-> cmd.dry_run,
                          cache |-> r.cache, files |-> r.files, changes |-> r.changes,
                          written |-> r.written, deleted |-> r.deleted,
                          actions |-> r.actions]
           /\ cmd' = [cmd EXCEPT !.next = @ + 1,
                                 !.total_generated = @ + Len(r.files)]
    /\ UNCHANGED spec_dir
    /\ UNCHANGED <<matcherVars, oauthVars, retryVars>>

\* lines 104-123: the loop is over, the command returns
Finish ==
    /\ cmd.phase = "running"
    /\ cmd.next > Len(spec_dir.files)
    /\ cmd' = [cmd EXCEPT !.phase = "exited", !.exit_code = CommandExitCode(NoRaise)]
    /\ UNCHANGED <<spec_dir, disk, cache_file, gen_ret>>
    /\ UNCHANGED <<matcherVars, oauthVars, retryVars>>

\* between two commands the user changes the spec files
EditSpec ==
    /\ cmd.phase = "exited"
    /\ cmd.runs < MaxRuns
    /\ \E fs \in FileEdits(spec_dir.files, spec_dir.kind) :
          spec_dir' = [spec_dir EXCEPT !.files = fs]
    /\ cmd' = IdleCmd(cmd.runs)
    /\ gen_ret' = NoGen
    /\ UNCHANGED <<disk, cache_file>>
    /\ UNCHANGED <<matcherVars, oauthVars, retryVars>>

NextGen == Start \/ LoadFails \/ GenerateFile \/ Finish \/ EditSpec

SpecGen == InitGen /\ [][NextGen]_vars

\* a step that is one call of generate, made by the command on its next file
IsGenerateStep == cmd.phase = "running" /\ cmd'.next = cmd.next + 1
CalledTests == spec_dir.files[cmd.next].tests
DistinctTests(ts) ==
    \A i, j \in DOMAIN ts :
        i # j => TestId(ts[i], i) # TestId(ts[j], j) /\ FilePath(ts[i], i) # FilePath(ts[j], j)
UpToDate(t, i) ==
    /\ cache_file[TestId(t, i)] # NoEntry
    /\ cache_file[TestId(t, i)].hash = ComputeHash(t)
    /\ Exists(disk, FilePath(t, i))

\* C13, as stated: in a call of generate with delta on and dry-run off (on a
\* spec file whose tests have distinct ids and files), a test whose cache
\* entry holds the hash of the test as it is now and whose file exists is
\* skipped: its file is not written, its path is not returned, and the
\* count of changes is the number of the other tests.
C13_DeltaSkipsUnchanged ==
    [][(IsGenerateStep /\ cmd.delta /\ ~cmd.dry_run /\ DistinctTests(CalledTests)) =>
        LET ts == CalledTests
            skipped == {i \in DOMAIN ts : UpToDate(ts[i], i)}
        IN  /\ \A i \in skipped :
                  /\ FilePath(ts[i], i) \notin gen_ret'.written
                  /\ \A k \in DOMAIN gen_ret'.files : gen_ret'.files[k] # FilePath(ts[i], i)
            /\ gen_ret'.changes = Len(ts) - Cardinality(skipped)
    ]_vars

\* the ids and the file names of the tests of the spec files under the path
PresentTests ==
    UNION {{<<TestId(spec_dir.files[k].tests[i], i), FilePath(spec_dir.files[k].tests[i], i)>> :
                i \in DOMAIN spec_dir.files[k].tests} : k \in DOMAIN spec_dir.files}

\* C14, as stated: when the command has run with --clean (no dry-run) over a
\* directory of several spec files and returned, every test of those files
\* has its file on disk and its entry in the cache, and the cache holds no
\* id that none of the files holds.
C14_CleanKeepsPresentTests ==
    (/\ cmd.phase = "exited" /\ cmd.raised = NoRaise
     /\ cmd.clean /\ ~cmd.dry_run
     /\ spec_dir.kind = "dir" /\ Len(spec_dir.files) >= 2) =>
        /\ \A t \in PresentTests : cache_file[t[1]] # NoEntry /\ Exists(disk, t[2])
        /\ \A tid \in AllIds :
              cache_file[tid] # NoEntry => \E t \in PresentTests : t[1] = tid

\* C15: a call of generate with dry_run on leaves every test file and the
\* cache file as they were, keeps the generator's cache as it was loaded,
\* writes and deletes nothing and returns an empty list, whatever the spec,
\* the cache and the delta and clean flags.
C15_DryRunChangesNothing ==
    [][(IsGenerateStep /\ cmd.dry_run) =>
        /\ disk' = disk
        /\ cache_file' = cache_file
        /\ gen_ret'.cache = cache_file
        /\ gen_ret'.files = <<>>
        /\ gen_ret'.written = {} /\ gen_ret'.deleted = {}
    ]_vars

\* a dry run with clean on returned while the cache held an obsolete test
\* whose file exists, and the spec held a test it would create or update
C15_Witness ==
    /\ gen_ret.called /\ gen_ret.dry_run /\ gen_ret.clean_removed
    /\ \E i \in DOMAIN gen_ret.actions : gen_ret.actions[i] \in {"would create", "would update"}
    /\ \E tid \in AllIds :
          /\ cache_file[tid] # NoEntry
          /\ Exists(disk, cache_file[tid].file)
          /\ \A i \in DOMAIN gen_ret.tests : TestId(gen_ret.tests[i], i) # tid

\* C17, as stated: a call of generate without dry_run on a spec of n >= 1
\* tests has returned n paths, and each of them is a file on disk.
C17_ReturnedPathsExist ==
    (gen_ret.called /\ ~gen_ret.dry_run /\ Len(gen_ret.tests) >= 1) =>
        /\ Len(gen_ret.files) = Len(gen_ret.tests)
        /\ \A k \in DOMAIN gen_ret.files : Exists(disk, gen_ret.files[k])

\* C18, as stated: the command ends with code 2 on a missing path, with
\* code 0 on a directory without spec files or a path that is no .json
\* file, with code 1 only after a load or generation error, and with the
\* code of the typer.Exit its body raised.
C18_ExitCodeAsRaised ==
    cmd.phase = "exited" =>
        /\ spec_dir.kind = "missing" => cmd.exit_code = 2
        /\ (spec_dir.kind = "other" \/ (spec_dir.kind = "dir" /\ spec_dir.files = <<>>)) =>
              cmd.exit_code = 0
        /\ cmd.exit_code = 1 => cmd.raised.type = "ValueError"
        /\ cmd.raised.type = "Exit" => cmd.exit_code = cmd.raised.code

====
